---- MODULE Spec2Model ----
(***************************************************************************)
(* Model of src/utils/solana.ts: getUserStakedAmount, the per-wallet       *)
(* deposit aggregation with its module-level cache (stakedAmountCache).    *)
(*                                                                         *)
(* A call is an async function: it runs synchronously up to each await     *)
(* (the activity listing, each Promise.all over a batch of detail          *)
(* requests), so one action models one synchronous segment of the call.    *)
(* Several calls may be in flight at once and share stakedAmountCache.     *)
(*                                                                         *)
(* Amounts are integers (the source uses JS numbers); optional values      *)
(* (null / undefined) are modelled as <<>> against <<v>>.                  *)
(***************************************************************************)
EXTENDS Integers, Sequences, FiniteSets, TLC

(***************************************************************************)
(* Bounds of the model                                                     *)
(***************************************************************************)
\* longest activity listing drawn in the aggregation specification
MaxLen == 3
\* latest value of Date.now() the clock reaches
MaxTime == 2
\* most activity records the ledger accumulates in the cache specification
MaxActivity == 1
\* longest activity listing in the batching specification
MaxSigs == 21

(***************************************************************************)
(* Program constants                                                       *)
(***************************************************************************)
\* SOLANA_CONSTANTS.CACHE_DURATION, in clock ticks
CACHE_DURATION == 1
\* const batchSize = 10
batchSize == 10
INCUBATOR_WALLET == "INC"
USDT_MINT == "USDT"

\* wallet address strings handed to getUserStakedAmount; "not-base58" is one
\* that new PublicKey(...) rejects
ValidWallets == {"U", "V"}
Wallets == ValidWallets \cup {"not-base58"}

\* mutant: the address is never validated
PublicKeyThrows_never(walletAddress) == FALSE

\* new PublicKey(walletAddress) throws for a malformed address
PublicKeyThrows(walletAddress) == walletAddress \notin ValidWallets

(***************************************************************************)
(* Ledger content: what connection.getParsedTransaction(signature)         *)
(* resolves to.  A signature is an index into this catalogue.              *)
(***************************************************************************)
Some(v) == <<v>>
None == <<>>

Bal(idx, owner, mint, amt) ==
    [accountIndex |-> idx, owner |-> owner, mint |-> mint, uiAmount |-> amt]

Parsed(sig, keys, pre, post) ==
    [signature |-> sig, isNull |-> FALSE, hasMeta |-> TRUE, accountKeys |-> keys,
     preTokenBalances |-> pre, postTokenBalances |-> post]

Unresolved(sig, isNull) ==
    [signature |-> sig, isNull |-> isNull, hasMeta |-> FALSE, accountKeys |-> <<>>,
     preTokenBalances |-> None, postTokenBalances |-> None]

Catalogue == <<
    \* 1: U deposits, custodial USDT slot 0 -> 50
    Parsed(1, <<"U", "INC">>,
           Some(<<Bal(1, "INC", "USDT", Some(0))>>),
           Some(<<Bal(1, "INC", "USDT", Some(50))>>)),
    \* 2: U deposits, 50 -> 120
    Parsed(2, <<"INC", "U">>,
           Some(<<Bal(1, "INC", "USDT", Some(50))>>),
           Some(<<Bal(1, "INC", "USDT", Some(120))>>)),
    \* 3: withdrawal 120 -> 90, U not a participant
    Parsed(3, <<"V", "INC">>,
           Some(<<Bal(1, "INC", "USDT", Some(120))>>),
           Some(<<Bal(1, "INC", "USDT", Some(90))>>)),
    \* 4: V deposits 0 -> 50, U not a participant
    Parsed(4, <<"V", "INC">>,
           Some(<<Bal(1, "INC", "USDT", Some(0))>>),
           Some(<<Bal(1, "INC", "USDT", Some(50))>>)),
    \* 5: withdrawal 120 -> 90 and a no-op 50 -> 50 with U a participant
    Parsed(5, <<"U", "INC">>,
           Some(<<Bal(1, "INC", "USDT", Some(120)), Bal(2, "INC", "USDT", Some(50))>>),
           Some(<<Bal(1, "INC", "USDT", Some(90)), Bal(2, "INC", "USDT", Some(50))>>)),
    \* 6: two custodial slots (pre-balances listed in another order) and a
    \*    slot of another owner; U and V both participants
    Parsed(6, <<"U", "V", "INC">>,
           Some(<<Bal(2, "INC", "USDT", Some(90)), Bal(1, "INC", "USDT", Some(0)),
                  Bal(3, "W", "USDT", Some(0))>>),
           Some(<<Bal(1, "INC", "USDT", Some(50)), Bal(2, "INC", "USDT", Some(120)),
                  Bal(3, "W", "USDT", Some(90))>>)),
    \* 7: slot created by the transaction: no pre-balance list at all
    Parsed(7, <<"U", "INC">>,
           None,
           Some(<<Bal(1, "INC", "USDT", Some(50))>>)),
    \* 8: pre-balance amount null (0 -> 50), and post amount null (50 -> null)
    Parsed(8, <<"U", "INC">>,
           Some(<<Bal(1, "INC", "USDT", None), Bal(2, "INC", "USDT", Some(50))>>),
           Some(<<Bal(1, "INC", "USDT", Some(50)), Bal(2, "INC", "USDT", None)>>)),
    \* 9: credits to the custodial owner in another asset, and to another
    \*    owner in the tracked asset
    Parsed(9, <<"U", "INC">>,
           Some(<<Bal(1, "INC", "SOL", Some(0)), Bal(2, "W", "USDT", Some(0))>>),
           Some(<<Bal(1, "INC", "SOL", Some(50)), Bal(2, "W", "USDT", Some(50))>>)),
    \* 10: the source could not resolve the record (null)
    Unresolved(10, TRUE),
    \* 11: a record without metadata
    Unresolved(11, FALSE)
>>

Signatures == DOMAIN Catalogue

getParsedTransaction(signature) == Catalogue[signature]

(***************************************************************************)
(* The aggregation loop body, lines 55-83                                  *)
(***************************************************************************)
\* x || 0 on a uiAmount: null, undefined and 0 all give 0
OrZero(amt) == IF amt = None THEN 0 ELSE amt[1]

\* x || [] on a token balance list
OrEmpty(list) == IF list = None THEN <<>> ELSE list[1]

\* preBalances.find(b => b.accountIndex === post.accountIndex): the first match
RECURSIVE FindPre(_, _, _)
FindPre(preBalances, accountIndex, k) ==
    IF k > Len(preBalances) THEN None
    ELSE IF preBalances[k].accountIndex = accountIndex THEN Some(preBalances[k])
    ELSE FindPre(preBalances, accountIndex, k + 1)

\* mutant: a slot without a pre-balance entry is taken as unchanged
PreAmount_skipCreated(preBalances, post) ==
    LET pre == FindPre(preBalances, post.accountIndex, 1)
    IN  IF pre = None THEN OrZero(post.uiAmount) ELSE OrZero(pre[1].uiAmount)

\* pre?.uiTokenAmount.uiAmount || 0
PreAmount(preBalances, post) ==
    LET pre == FindPre(preBalances, post.accountIndex, 1)
    IN  IF pre = None THEN 0 ELSE OrZero(pre[1].uiAmount)

\* post.uiTokenAmount.uiAmount || 0
PostAmount(post) == OrZero(post.uiAmount)

\* mutant: the asset is not checked
IsIncubatorUsdt_ownerOnly(post) == post.owner = INCUBATOR_WALLET

\* lines 70-71
IsIncubatorUsdt(post) == post.owner = INCUBATOR_WALLET /\ post.mint = USDT_MINT

\* mutant: the delta is added whatever its sign
AddDelta_signed(total, preAmount, postAmount) == total + (postAmount - preAmount)

\* lines 77-79: the new running total after one qualifying slot
AddDelta(total, preAmount, postAmount) ==
    IF postAmount > preAmount THEN total + (postAmount - preAmount) ELSE total

\* lines 69-81: the loop over postBalances, from slot k on
RECURSIVE AddSlots(_, _, _, _)
AddSlots(total, postBalances, preBalances, k) ==
    IF k > Len(postBalances) THEN total
    ELSE LET post == postBalances[k]
             next == IF IsIncubatorUsdt(post)
                     THEN AddDelta(total, PreAmount(preBalances, post), PostAmount(post))
                     ELSE total
         IN  AddSlots(next, postBalances, preBalances, k + 1)

\* mutant: every transaction is attributed to the user
IsFromUser_always(tx, walletAddress) == TRUE

\* lines 60-62
IsFromUser(tx, walletAddress) ==
    \E k \in DOMAIN tx.accountKeys : tx.accountKeys[k] = walletAddress

\* mutant: the guard against a null transaction or null meta is missing
Skipped_never(tx) == FALSE

\* line 56: !tx?.meta
Skipped(tx) == tx.isNull \/ ~tx.hasMeta

\* mutant: no transaction is ever recognised as processed
AlreadyProcessed_never(processedTxs, tx) == FALSE

\* line 56: processedTxs.has(tx.signature)
AlreadyProcessed(processedTxs, tx) == tx.signature \in processedTxs

\* lines 56-82: one iteration of `for (const tx of transactions)`.  acc holds
\* total and processedTxs; steps records, per transaction that reaches line
\* 57, the running total before and after it.
ProcessTx(acc, tx, walletAddress) ==
    IF Skipped(tx) \/ AlreadyProcessed(acc.processedTxs, tx) THEN acc
    ELSE LET after == IF IsFromUser(tx, walletAddress)
                      THEN AddSlots(acc.total, OrEmpty(tx.postTokenBalances),
                                    OrEmpty(tx.preTokenBalances), 1)
                      ELSE acc.total
         IN  [total |-> after,
              processedTxs |-> acc.processedTxs \cup {tx.signature},
              steps |-> Append(acc.steps,
                               [signature |-> tx.signature,
                                before |-> acc.total, after |-> after])]

\* lines 55-83: the loop over one batch's transactions
RECURSIVE ProcessTransactions(_, _, _, _)
ProcessTransactions(acc, transactions, walletAddress, k) ==
    IF k > Len(transactions) THEN acc
    ELSE LET iteration == {ProcessTx(acc, transactions[k], walletAddress)}
         IN  \* one iteration's result is a value before the next reads it
             CHOOSE result \in {ProcessTransactions(a, transactions,
                                                    walletAddress, k + 1) :
                                    a \in iteration} : TRUE

(***************************************************************************)
(* State                                                                   *)
(***************************************************************************)
VARIABLES
    stakedAmountCache,  \* the Map: a function from the cached wallets to entries
    clock,              \* what Date.now() returns
    ledgerSigs,         \* what getSignaturesForAddress resolves to
    calls               \* the invocations of getUserStakedAmount in flight

vars == <<stakedAmountCache, clock, ledgerSigs, calls>>

Calls == {"c1", "c2"}

\* A call that has not been invoked.  Besides the function's locals
\* (walletAddress, now, signatures, i, total, processedTxs) a call records
\* its position (pc), the detail requests it has in flight (outstanding),
\* its outcome, and its history: the cache entry of its wallet when it was
\* invoked, the path it finished on, the requests it issued, and the
\* running total around every transaction it processed.
IdleCall ==
    [pc |-> "idle", walletAddress |-> "", now |-> 0, signatures |-> <<>>, i |-> 0,
     total |-> 0, processedTxs |-> {}, outstanding |-> 0,
     outcome |-> "none", value |-> 0,
     entryAtStart |-> None, path |-> "", listings |-> 0, details |-> 0,
     batches |-> 0, steps |-> <<>>]

CacheEntry(amount, timestamp) == [amount |-> amount, timestamp |-> timestamp]

\* mutant: an entry aged exactly CACHE_DURATION is deleted too
Expired_atTtl(entry, now) == now - entry.timestamp >= CACHE_DURATION

\* lines 16-20: an entry is deleted when now - entry.timestamp > CACHE_DURATION
Expired(entry, now) == now - entry.timestamp > CACHE_DURATION

PurgeExpired(cache, now) ==
    [key \in {k \in DOMAIN cache : ~Expired(cache[k], now)} |-> cache[key]]

\* mutant: the freshness comparison is inverted
IsFresh_inverted(cache, walletAddress, now) ==
    /\ walletAddress \in DOMAIN cache
    /\ now - cache[walletAddress].timestamp > CACHE_DURATION

\* line 24: cached && (now - cached.timestamp) < CACHE_DURATION
IsFresh(cache, walletAddress, now) ==
    /\ walletAddress \in DOMAIN cache
    /\ now - cache[walletAddress].timestamp < CACHE_DURATION

\* mutant: the write replaces the whole map by the one new entry
CacheSet_singleEntry(cache, walletAddress, entry) ==
    [key \in {walletAddress} |-> entry]

\* lines 87-90: stakedAmountCache.set(walletAddress, {amount: total, timestamp: now})
CacheSet(cache, walletAddress, entry) ==
    [key \in DOMAIN cache \cup {walletAddress} |->
        IF key = walletAddress THEN entry ELSE cache[key]]

\* mutant: the catch block returns 0 when the cache has no entry
Catch_defaultZero(call, cache) ==
    [call EXCEPT !.pc = "done", !.outcome = "return",
                 !.value = IF call.walletAddress \in DOMAIN cache
                           THEN cache[call.walletAddress].amount ELSE 0,
                 !.path = "stale"]

\* mutant: the catch block returns what was accumulated so far
Catch_partialTotal(call, cache) ==
    [call EXCEPT !.pc = "done", !.outcome = "return", !.value = call.total,
                 !.path = "stale"]

\* lines 93-103: the catch block, run against the cache as it is then
Catch(call, cache) ==
    IF call.walletAddress \in DOMAIN cache
    THEN [call EXCEPT !.pc = "done", !.outcome = "return",
                      !.value = cache[call.walletAddress].amount, !.path = "stale"]
    ELSE [call EXCEPT !.pc = "done", !.outcome = "throw", !.path = "failed"]

\* mutant: the slice has no upper end
Batch_rest(signatures, i) == SubSeq(signatures, i + 1, Len(signatures))

\* line 44: signatures.slice(i, i + batchSize), i counted from 0
Batch(signatures, i) ==
    SubSeq(signatures, i + 1,
           IF i + batchSize < Len(signatures) THEN i + batchSize ELSE Len(signatures))

\* lines 46-53: one detail request per record of the batch, all issued at once
IssueBatch(call) ==
    LET batch == Batch(call.signatures, call.i)
    IN  [call EXCEPT !.pc = "batch", !.outstanding = Len(batch),
                     !.details = @ + Len(batch), !.batches = @ + 1]

\* mutant: an entry found at the start is returned in place of the total
ReturnTotal_preferCached(call) ==
    [call EXCEPT !.pc = "done", !.outcome = "return",
                 !.value = IF call.entryAtStart # None
                           THEN call.entryAtStart[1].amount ELSE call.total,
                 !.path = "computed"]

\* lines 86-92: the call returns the total it computed
ReturnTotal(call) ==
    [call EXCEPT !.pc = "done", !.outcome = "return", !.value = call.total,
                 !.path = "computed"]

\* line 43: the loop test, then either the next batch or lines 86-92
LoopOrFinish(call) ==
    IF call.i < Len(call.signatures) THEN IssueBatch(call) ELSE ReturnTotal(call)

\* mutant: the entry is stamped with the time of the write
CacheAfter_completionTime(cache, next) ==
    IF next.path = "computed"
    THEN CacheSet(cache, next.walletAddress, CacheEntry(next.total, clock))
    ELSE cache

\* mutant: the write is skipped when the wallet already has an entry
CacheAfter_keepFirst(cache, next) ==
    IF next.path = "computed" /\ next.walletAddress \notin DOMAIN cache
    THEN CacheSet(cache, next.walletAddress, CacheEntry(next.total, next.now))
    ELSE cache

\* mutant: the cache is written inside the loop, with the running total
CacheAfter_everyBatch(cache, next) ==
    CacheSet(cache, next.walletAddress, CacheEntry(next.total, next.now))

\* the cache after the segment that took `call` to `next`: written by
\* lines 87-90 exactly when the call finished on the computed path
CacheAfter(cache, next) ==
    IF next.path = "computed"
    THEN CacheSet(cache, next.walletAddress, CacheEntry(next.total, next.now))
    ELSE cache

(***************************************************************************)
(* Actions: the synchronous segments of a call, and its environment        *)
(***************************************************************************)
\* lines 13-36: from the invocation to the first await
Invoke(c, walletAddress) ==
    /\ calls[c].pc = "idle"
    /\ LET now == clock
           purged == PurgeExpired(stakedAmountCache, now)
           started == [IdleCall EXCEPT
                          !.walletAddress = walletAddress, !.now = now,
                          !.entryAtStart =
                              IF walletAddress \in DOMAIN stakedAmountCache
                              THEN Some(stakedAmountCache[walletAddress]) ELSE None]
           next == IF IsFresh(purged, walletAddress, now)
                   THEN [started EXCEPT !.pc = "done", !.outcome = "return",
                                        !.value = purged[walletAddress].amount,
                                        !.path = "hit"]
                   ELSE IF PublicKeyThrows(walletAddress)
                   THEN Catch(started, purged)
                   ELSE [started EXCEPT !.pc = "listing", !.listings = @ + 1]
       IN  /\ stakedAmountCache' = purged
           /\ calls' = [calls EXCEPT ![c] = next]
    /\ UNCHANGED <<clock, ledgerSigs>>

\* lines 32-53 or 32-92: the listing resolves; the loop starts
SignaturesResolve(c) ==
    /\ calls[c].pc = "listing"
    /\ LET next == LoopOrFinish([calls[c] EXCEPT !.signatures = ledgerSigs])
       IN  /\ calls' = [calls EXCEPT ![c] = next]
           /\ stakedAmountCache' = CacheAfter(stakedAmountCache, next)
    /\ UNCHANGED <<clock, ledgerSigs>>

\* the listing rejects: lines 93-103
SignaturesReject(c) ==
    /\ calls[c].pc = "listing"
    /\ calls' = [calls EXCEPT ![c] = Catch(calls[c], stakedAmountCache)]
    /\ UNCHANGED <<stakedAmountCache, clock, ledgerSigs>>

\* one detail request of the batch in flight resolves
DetailResolve(c) ==
    /\ calls[c].pc = "batch"
    /\ calls[c].outstanding > 0
    /\ calls' = [calls EXCEPT ![c].outstanding = @ - 1]
    /\ UNCHANGED <<stakedAmountCache, clock, ledgerSigs>>

\* one detail request rejects: Promise.all rejects at once, lines 93-103;
\* the other requests of the batch stay in flight
DetailReject(c) ==
    /\ calls[c].pc = "batch"
    /\ calls[c].outstanding > 0
    /\ calls' = [calls EXCEPT ![c] =
                    Catch([calls[c] EXCEPT !.outstanding = @ - 1], stakedAmountCache)]
    /\ UNCHANGED <<stakedAmountCache, clock, ledgerSigs>>

\* mutant: the loop index is not advanced
NextIndex_stuck(i) == i

\* line 43: i += batchSize
NextIndex(i) == i + batchSize

\* the transactions Promise.all hands back for the batch, in batch order
Transactions(call) ==
    LET batch == Batch(call.signatures, call.i)
    IN  [k \in 1..Len(batch) |-> getParsedTransaction(batch[k])]

\* lines 55-84 and on: every request of the batch has resolved
ProcessBatch(c) ==
    /\ calls[c].pc = "batch"
    /\ calls[c].outstanding = 0
    /\ LET call == calls[c]
           acc == ProcessTransactions(
                      [total |-> call.total, processedTxs |-> call.processedTxs,
                       steps |-> call.steps],
                      Transactions(call), call.walletAddress, 1)
           next == LoopOrFinish([call EXCEPT !.total = acc.total,
                                             !.processedTxs = acc.processedTxs,
                                             !.steps = acc.steps,
                                             !.i = NextIndex(@)])
       IN  /\ calls' = [calls EXCEPT ![c] = next]
           /\ stakedAmountCache' = CacheAfter(stakedAmountCache, next)
    /\ UNCHANGED <<clock, ledgerSigs>>

\* a request left in flight by a call that already failed settles, unobserved
OrphanSettle(c) ==
    /\ calls[c].pc = "done"
    /\ calls[c].outstanding > 0
    /\ calls' = [calls EXCEPT ![c].outstanding = @ - 1]
    /\ UNCHANGED <<stakedAmountCache, clock, ledgerSigs>>

\* the caller takes the outcome; the slot is free for another invocation
\* (requests a failed call left in flight are no longer followed)
Return(c) ==
    /\ calls[c].pc = "done"
    /\ calls' = [calls EXCEPT ![c] = IdleCall]
    /\ UNCHANGED <<stakedAmountCache, clock, ledgerSigs>>

\* time passes
Tick ==
    /\ clock < MaxTime
    /\ clock' = clock + 1
    /\ UNCHANGED <<stakedAmountCache, ledgerSigs, calls>>

\* the transactions the custodial address sees over time, oldest first,
\* repeating
ActivityOrder == <<1, 2, 4, 10>>

\* the custodial address sees a new transaction (listed most recent first)
NewActivity ==
    /\ Len(ledgerSigs) < MaxActivity
    /\ ledgerSigs' = <<ActivityOrder[(Len(ledgerSigs) % Len(ActivityOrder)) + 1]>>
                      \o ledgerSigs
    /\ UNCHANGED <<stakedAmountCache, clock, calls>>

(***************************************************************************)
(* Specifications                                                          *)
(***************************************************************************)
NoCalls == [c \in Calls |-> IdleCall]
EmptyCache == [key \in {} |-> CacheEntry(0, 0)]

\* Spec: concurrent calls, the cache and the clock, over a short ledger

Init ==
    /\ stakedAmountCache = EmptyCache
    /\ clock = 0
    /\ ledgerSigs = <<>>
    /\ calls = NoCalls

Next ==
    \/ Tick
    \/ NewActivity
    \/ \E c \in Calls, w \in Wallets : Invoke(c, w)
    \/ \E c \in Calls : SignaturesResolve(c)
    \/ \E c \in Calls : SignaturesReject(c)
    \/ \E c \in Calls : DetailResolve(c)
    \/ \E c \in Calls : DetailReject(c)
    \/ \E c \in Calls : ProcessBatch(c)
    \/ \E c \in Calls : Return(c)

Spec == Init /\ [][Next]_vars

\* SpecAgg: one call against every listing of up to MaxLen catalogue records
SeqsUpTo(S, n) == UNION {[1..m -> S] : m \in 0..n}

InitAgg ==
    /\ stakedAmountCache = EmptyCache
    /\ clock = 0
    /\ ledgerSigs \in SeqsUpTo(Signatures, MaxLen)
    /\ calls = NoCalls

NextAgg ==
    \/ \E w \in ValidWallets : Invoke("c1", w)
    \/ SignaturesResolve("c1")
    \/ DetailResolve("c1")
    \/ ProcessBatch("c1")

SpecAgg == InitAgg /\ [][NextAgg]_vars

\* SpecBatch: one call against listings of up to MaxSigs records, which
\* repeat the catalogue in order
Listing(n) == [k \in 1..n |-> ((k - 1) % Len(Catalogue)) + 1]

InitBatch ==
    /\ stakedAmountCache = EmptyCache
    /\ clock = 0
    /\ ledgerSigs \in {Listing(n) : n \in 0..MaxSigs}
    /\ calls = NoCalls

NextBatch ==
    \/ Invoke("c1", "U")
    \/ SignaturesResolve("c1")
    \/ SignaturesReject("c1")
    \/ DetailResolve("c1")
    \/ DetailReject("c1")
    \/ ProcessBatch("c1")
    \/ OrphanSettle("c1")

SpecBatch == InitBatch /\ [][NextBatch]_vars

\* SpecLive: SpecBatch where every ledger request in flight eventually
\* settles and the continuation of a settled await eventually runs
Fairness ==
    /\ WF_vars(SignaturesResolve("c1") \/ SignaturesReject("c1"))
    /\ WF_vars(DetailResolve("c1") \/ DetailReject("c1"))
    /\ WF_vars(ProcessBatch("c1"))

SpecLive == InitBatch /\ [][NextBatch]_vars /\ Fairness

(***************************************************************************)
(* What the aggregation is meant to compute, stated over sets              *)
(***************************************************************************)
RECURSIVE SumOver(_, _)
SumOver(S, f) ==
    IF S = {} THEN 0
    ELSE LET x == CHOOSE y \in S : TRUE IN f[x] + SumOver(S \ {x}, f)

Participants(tx) == {tx.accountKeys[k] : k \in DOMAIN tx.accountKeys}

PostSlots(tx) == IF tx.postTokenBalances = None THEN <<>> ELSE tx.postTokenBalances[1]
PreSlots(tx) == IF tx.preTokenBalances = None THEN <<>> ELSE tx.preTokenBalances[1]

\* the post-balance slots owned by the custodial address in the tracked asset
QualifyingSlots(tx) ==
    {k \in DOMAIN PostSlots(tx) :
        PostSlots(tx)[k].owner = "INC" /\ PostSlots(tx)[k].mint = "USDT"}

\* the amount of an optional amount, a missing one counting as zero
AmountOrZero(amt) == IF amt = <<>> THEN 0 ELSE amt[1]

\* the pre-balance of post slot k: that of the first pre-balance entry with
\* the same slot index, zero when there is none
SlotPre(tx, k) ==
    LET same == {j \in DOMAIN PreSlots(tx) :
                    PreSlots(tx)[j].accountIndex = PostSlots(tx)[k].accountIndex}
    IN  IF same = {} THEN 0
        ELSE AmountOrZero(PreSlots(tx)[CHOOSE j \in same : \A m \in same : j <= m].uiAmount)

SlotPost(tx, k) == AmountOrZero(PostSlots(tx)[k].uiAmount)

\* max(postAmount - preAmount, 0)
SlotDeposit(tx, k) ==
    IF SlotPost(tx, k) - SlotPre(tx, k) > 0 THEN SlotPost(tx, k) - SlotPre(tx, k) ELSE 0

Resolved(tx) == ~tx.isNull /\ tx.hasMeta

TxDeposit(tx, user) ==
    IF Resolved(tx) /\ user \in Participants(tx)
    THEN SumOver(QualifyingSlots(tx), [k \in QualifyingSlots(tx) |-> SlotDeposit(tx, k)])
    ELSE 0

\* the total over the distinct resolved transactions of a listing
WindowDeposit(signatures, user) ==
    LET listed == {signatures[k] : k \in DOMAIN signatures}
    IN  SumOver(listed, [s \in listed |-> TxDeposit(Catalogue[s], user)])

Computed(c) == calls[c].pc = "done" /\ calls[c].path = "computed"

\* the pipeline of call c ran and failed: the call ended in the catch block
\* after issuing the activity listing
PipelineFailed(c) ==
    /\ calls[c].pc = "done"
    /\ calls[c].path \in {"stale", "failed"}
    /\ calls[c].listings > 0

(***************************************************************************)
(* Claims                                                                  *)
(***************************************************************************)

\* C1 (as claimed): a call whose fetch pipeline failed, and whose wallet had
\* a cache entry of any age when the call started, returned that entry's
\* amount and did not throw.
C1_StaleFallbackAnyAge ==
    \A c \in Calls :
        (PipelineFailed(c) /\ calls[c].entryAtStart # None)
            => /\ calls[c].outcome = "return"
               /\ calls[c].value = calls[c].entryAtStart[1].amount

\* C2: a call that found, when it started, an entry of its wallet younger
\* than CACHE_DURATION has already returned exactly that entry's amount and
\* has issued no ledger request, neither the listing nor a detail request.
C2_CacheFreshness ==
    \A c \in Calls :
        (/\ calls[c].pc # "idle"
         /\ calls[c].entryAtStart # None
         /\ calls[c].now - calls[c].entryAtStart[1].timestamp < CACHE_DURATION)
            => /\ calls[c].pc = "done"
               /\ calls[c].outcome = "return"
               /\ calls[c].value = calls[c].entryAtStart[1].amount
               /\ calls[c].listings = 0
               /\ calls[c].details = 0

\* C2 witness: a second call served a non-zero amount from a fresh entry
C2_Witness ==
    \E c \in Calls :
        /\ calls[c].pc = "done" /\ calls[c].path = "hit"
        /\ calls[c].value = 50
        /\ calls[c].listings = 0

\* the spec's scenario: tx1 credits 0 -> 50, tx2 credits 50 -> 120 (U a
\* participant of both), tx3 moves 120 -> 90 without U
Scenario(c) ==
    /\ Computed(c)
    /\ calls[c].walletAddress = "U"
    /\ calls[c].signatures = <<1, 2, 3>>

\* C3, the general part: on a cache miss whose pipeline succeeded, the total
\* returned is the sum, over the distinct resolved transactions of the
\* window that list the user, over their custodial slots in the tracked
\* asset, of max(postAmount - preAmount, 0).
AggregatedTotal ==
    \A c \in Calls :
        Computed(c) =>
            /\ calls[c].outcome = "return"
            /\ calls[c].value = WindowDeposit(calls[c].signatures, calls[c].walletAddress)

\* C3 (as claimed): the general part, and the scenario returns 70.
C3_ScenarioReturns70 ==
    /\ AggregatedTotal
    /\ \A c \in Calls : Scenario(c) => calls[c].value = 70

\* C3 (amended): the general part, and the scenario returns 120 = 50 + 70.
C3_AggregatedTotal ==
    /\ AggregatedTotal
    /\ \A c \in Calls : Scenario(c) => calls[c].value = 120

\* C3 witness: the scenario has run to its end
C3_Witness == \E c \in Calls : Scenario(c) /\ calls[c].value > 0

\* C4: when the pipeline of a call fails (the listing or a detail request
\* rejects) while the cache holds no entry of the call's wallet, the call
\* throws instead of returning a number, and the cache holds no entry of
\* that wallet afterwards.
C4_HardFailure ==
    [][\A c \in Calls :
          (/\ calls[c].pc \in {"listing", "batch"}
           /\ calls'[c].pc = "done"
           /\ calls'[c].path # "computed"
           /\ calls[c].walletAddress \notin DOMAIN stakedAmountCache)
              => /\ calls'[c].outcome = "throw"
                 /\ calls[c].walletAddress \notin DOMAIN stakedAmountCache']_vars

\* C4 witness: a call of a well-formed wallet threw after its listing was
\* issued, and the cache has no entry of the wallet
C4_Witness ==
    \E c \in Calls :
        /\ PipelineFailed(c)
        /\ calls[c].outcome = "throw"
        /\ calls[c].walletAddress \notin DOMAIN stakedAmountCache

\* the steps of call c that processed the transaction with signature s
StepsOf(c, s) == {k \in DOMAIN calls[c].steps : calls[c].steps[k].signature = s}

Listed(c) == {calls[c].signatures[k] : k \in DOMAIN calls[c].signatures}

\* C5: whatever the listing repeats, every resolved transaction of it is
\* processed exactly once, adding its positive deltas once, and unresolved
\* ones never.
C5_Dedup ==
    \A c \in Calls :
        Computed(c) =>
            \A s \in Listed(c) :
                IF Resolved(Catalogue[s])
                THEN /\ Cardinality(StepsOf(c, s)) = 1
                     /\ \A k \in StepsOf(c, s) :
                            calls[c].steps[k].after - calls[c].steps[k].before
                                = TxDeposit(Catalogue[s], calls[c].walletAddress)
                ELSE StepsOf(c, s) = {}

\* C5 witness: a listing that repeats a depositing transaction, next to
\* another one, has been aggregated
C5_Witness ==
    \E c \in Calls :
        /\ Computed(c)
        /\ calls[c].signatures = <<1, 2, 1>>
        /\ calls[c].walletAddress = "U"
        /\ calls[c].value = 120

\* C6: the cache gains or changes an entry only in the step in which a call
\* for that wallet finishes its whole pipeline: the entry is that call's
\* final total, over every record of its listing, with the call's `now`.
C6_CacheWritesOnlyOnSuccess ==
    [][\A w \in Wallets :
          (/\ w \in DOMAIN stakedAmountCache'
           /\ (w \notin DOMAIN stakedAmountCache
                  \/ stakedAmountCache'[w] # stakedAmountCache[w]))
              => \E c \in Calls :
                    /\ calls[c].pc \in {"listing", "batch"}
                    /\ calls'[c].pc = "done"
                    /\ calls'[c].outcome = "return"
                    /\ calls'[c].path = "computed"
                    /\ calls'[c].walletAddress = w
                    /\ calls'[c].details = Len(calls'[c].signatures)
                    /\ calls'[c].value = WindowDeposit(calls'[c].signatures, w)
                    /\ stakedAmountCache'[w] =
                           [amount |-> calls'[c].value, timestamp |-> calls'[c].now]]_vars

\* C6 witness: a call failed on the stale path while the entry it returned,
\* written by an earlier successful call, is still in the cache
C6_Witness ==
    \E c \in Calls :
        /\ PipelineFailed(c)
        /\ calls[c].outcome = "return"
        /\ calls[c].details > 0
        /\ calls[c].walletAddress \in DOMAIN stakedAmountCache
        /\ stakedAmountCache[calls[c].walletAddress].amount = 50

CeilDiv(n, b) == (n + b - 1) \div b

\* C7: a call never has more than batchSize detail requests in flight; it
\* issues requests only while none of its earlier ones is in flight; and a
\* call that finished without a failure issued exactly ceil(N / batchSize)
\* batches, one request per record.
C7_BatchBound ==
    [][\A c \in Calls :
          /\ calls'[c].outstanding <= batchSize
          /\ calls'[c].details > calls[c].details
                => /\ calls[c].outstanding = 0
                   /\ calls'[c].batches = calls[c].batches + 1
          /\ calls'[c].batches # calls[c].batches
                => calls'[c].details > calls[c].details
          /\ (calls'[c].pc = "done" /\ calls'[c].path = "computed")
                => /\ calls'[c].batches = CeilDiv(Len(calls'[c].signatures), batchSize)
                   /\ calls'[c].details = Len(calls'[c].signatures)]_vars

\* C7 witness: a call over more than two full batches finished
C7_Witness ==
    \E c \in Calls :
        /\ Computed(c)
        /\ Len(calls[c].signatures) > 2 * batchSize
        /\ calls[c].batches = 3

\* C8: a call with a malformed wallet address has thrown by the end of its
\* first segment, whatever the cache holds, having issued no ledger request;
\* and the cache never holds an entry under a malformed address.
C8_InvalidAccount ==
    /\ "not-base58" \notin DOMAIN stakedAmountCache
    /\ \A c \in Calls :
          (calls[c].pc # "idle" /\ calls[c].walletAddress = "not-base58")
              => /\ calls[c].pc = "done"
                 /\ calls[c].outcome = "throw"
                 /\ calls[c].listings = 0
                 /\ calls[c].details = 0

\* C8 witness: a malformed address was rejected while the cache held entries
C8_Witness ==
    \E c \in Calls :
        /\ calls[c].walletAddress = "not-base58"
        /\ calls[c].outcome = "throw"
        /\ DOMAIN stakedAmountCache # {}

\* C9: a processed transaction whose participants do not include the
\* queried wallet leaves the running total as it was.
C9_Attribution ==
    \A c \in Calls :
        \A k \in DOMAIN calls[c].steps :
            calls[c].walletAddress \notin Participants(Catalogue[calls[c].steps[k].signature])
                => calls[c].steps[k].after = calls[c].steps[k].before

\* C9 witness: U's call processed transaction 4, a deposit by V alone
C9_Witness ==
    \E c \in Calls :
        /\ Computed(c)
        /\ calls[c].walletAddress = "U"
        /\ \E k \in DOMAIN calls[c].steps : calls[c].steps[k].signature = 4

\* C10: a processed transaction of a participant adds, per custodial slot
\* in the tracked asset, postAmount - preAmount when that is positive and
\* nothing otherwise; so no step lowers the running total, which is never
\* negative.
C10_Sign ==
    \A c \in Calls :
        /\ calls[c].total >= 0
        /\ calls[c].value >= 0
        /\ \A k \in DOMAIN calls[c].steps :
              LET step == calls[c].steps[k]
                  tx == Catalogue[step.signature]
                  added == [j \in QualifyingSlots(tx) |->
                               IF SlotPost(tx, j) > SlotPre(tx, j)
                               THEN SlotPost(tx, j) - SlotPre(tx, j) ELSE 0]
              IN  /\ step.before >= 0
                  /\ step.after >= step.before
                  /\ calls[c].walletAddress \in Participants(tx)
                        => step.after - step.before = SumOver(QualifyingSlots(tx), added)

\* C10 witness: after a deposit, a call processed transaction 5 (a
\* withdrawal and a no-op, the user a participant) and kept its total
C10_Witness ==
    \E c \in Calls :
        /\ Computed(c)
        /\ \E k \in DOMAIN calls[c].steps :
              /\ calls[c].steps[k].signature = 5
              /\ calls[c].steps[k].before > 0
              /\ calls[c].steps[k].after = calls[c].steps[k].before

\* C11: a call reads `now` from the clock when it is invoked and keeps it;
\* when its pipeline succeeds it returns the total computed in this call,
\* over its own listing, and leaves the entry {amount: total, timestamp: now}
\* for its wallet, whatever entry the cache held before.
C11_FreshOverStale ==
    [][\A c \in Calls :
          /\ (calls[c].pc = "idle" /\ calls'[c].pc # "idle")
                => calls'[c].now = clock
          /\ (calls[c].pc \in {"listing", "batch"} /\ calls'[c].pc # "idle")
                => calls'[c].now = calls[c].now
          /\ (calls[c].pc \in {"listing", "batch"}
                 /\ calls'[c].pc = "done" /\ calls'[c].path = "computed")
                => /\ calls'[c].outcome = "return"
                   /\ calls'[c].value = calls'[c].total
                   /\ calls'[c].value =
                          WindowDeposit(calls'[c].signatures, calls[c].walletAddress)
                   /\ calls[c].walletAddress \in DOMAIN stakedAmountCache'
                   /\ stakedAmountCache'[calls[c].walletAddress] =
                          [amount |-> calls'[c].total, timestamp |-> calls[c].now]]_vars

\* C11 witness: a call that started with an entry of another amount, no
\* longer fresh, finished later than it started and left its own total
C11_Witness ==
    \E c \in Calls :
        /\ Computed(c)
        /\ calls[c].entryAtStart # None
        /\ calls[c].entryAtStart[1].amount # calls[c].value
        /\ calls[c].now < clock
        /\ stakedAmountCache[calls[c].walletAddress] =
               [amount |-> calls[c].value, timestamp |-> calls[c].now]

\* the step taken is a step of call c
StepOf(c) == calls'[c] # calls[c]

\* the wallet call c is for, before or after its step
WalletOf(c) ==
    IF calls[c].pc = "idle" THEN calls'[c].walletAddress ELSE calls[c].walletAddress

EntryKept(u) ==
    /\ (u \in DOMAIN stakedAmountCache) = (u \in DOMAIN stakedAmountCache')
    /\ u \in DOMAIN stakedAmountCache => stakedAmountCache'[u] = stakedAmountCache[u]

\* C12 (as claimed): no step of a call for one wallet deletes or overwrites
\* the cache entry of another wallet.
C12_NoStepTouchesOtherUser ==
    [][\A c \in Calls : \A u \in Wallets :
          (StepOf(c) /\ WalletOf(c) # u) => EntryKept(u)]_vars

\* C12 (amended): a step of a call for one wallet never creates or rewrites
\* the entry of another wallet; it changes it only by deleting it, in the
\* purge of its first segment, when the entry is older than CACHE_DURATION
\* at the call's `now`.
C12_OtherUserOnlyPurged ==
    [][\A c \in Calls : \A u \in Wallets :
          (StepOf(c) /\ WalletOf(c) # u)
              => \/ EntryKept(u)
                 \/ /\ calls[c].pc = "idle"
                    /\ u \in DOMAIN stakedAmountCache
                    /\ u \notin DOMAIN stakedAmountCache'
                    /\ calls'[c].now - stakedAmountCache[u].timestamp > CACHE_DURATION]_vars

\* C12 witness: a call for V has finished its pipeline and written its entry
\* while the entry of U, written earlier with another amount, is still there
C12_Witness ==
    \E c \in Calls :
        /\ Computed(c)
        /\ calls[c].walletAddress = "V"
        /\ "U" \in DOMAIN stakedAmountCache
        /\ "V" \in DOMAIN stakedAmountCache
        /\ stakedAmountCache["U"].amount # stakedAmountCache["V"].amount

\* C13: the step in which a detail request rejects ends the call on the
\* failure path: nothing accumulated is returned (with no entry to fall
\* back on the call throws), the cache is not written, and from then on the
\* call issues no request and no batch: none of a later batch, no retry.
C13_BatchFailure ==
    [][\A c \in Calls :
          /\ (calls[c].pc = "batch" /\ calls'[c].pc = "done"
                 /\ calls'[c].path # "computed")
                => /\ stakedAmountCache' = stakedAmountCache
                   /\ calls'[c].details = calls[c].details
                   /\ calls'[c].batches = calls[c].batches
                   /\ IF calls[c].walletAddress \in DOMAIN stakedAmountCache
                      THEN /\ calls'[c].outcome = "return"
                           /\ calls'[c].value =
                                  stakedAmountCache[calls[c].walletAddress].amount
                      ELSE calls'[c].outcome = "throw"
          /\ (calls[c].pc = "done" /\ calls'[c].pc = "done")
                => /\ calls'[c].details = calls[c].details
                   /\ calls'[c].batches = calls[c].batches
                   /\ calls'[c].listings = calls[c].listings
                   /\ calls'[c].outcome = calls[c].outcome
                   /\ stakedAmountCache' = stakedAmountCache]_vars

\* C13 witness: a request of the second batch rejected after the first batch
\* had added to the total; the third batch was never issued
C13_Witness ==
    \E c \in Calls :
        /\ PipelineFailed(c)
        /\ calls[c].outcome = "throw"
        /\ calls[c].batches = 2
        /\ calls[c].total > 0
        /\ Len(calls[c].signatures) > 2 * batchSize
        /\ calls[c].details = 2 * batchSize
        /\ DOMAIN stakedAmountCache = {}

C15_PurgeEffectAndFrame ==
    [][\A c \in Calls :
          (calls[c].pc = "idle" /\ calls'[c].pc # "idle")
              => /\ DOMAIN stakedAmountCache' =
                        {k \in DOMAIN stakedAmountCache :
                            clock - stakedAmountCache[k].timestamp <= CACHE_DURATION}
                 /\ \A k \in DOMAIN stakedAmountCache' :
                        stakedAmountCache'[k] = stakedAmountCache[k]
                 /\ calls'[c].walletAddress \notin DOMAIN stakedAmountCache'
                        => calls'[c].path # "hit"]_vars

\* C15 witness: a call for V has just purged the expired entry of U and its
\* own, and is awaiting its listing
C15_Witness ==
    \E c \in Calls :
        /\ calls[c].pc = "listing"
        /\ calls[c].walletAddress = "V"
        /\ calls[c].entryAtStart # None
        /\ calls[c].now - calls[c].entryAtStart[1].timestamp > CACHE_DURATION
        /\ DOMAIN stakedAmountCache = {}
        /\ \E d \in Calls :
              /\ calls[d].walletAddress = "U"
              /\ Computed(d)
              /\ calls[c].now - calls[d].now > CACHE_DURATION

\* C16: when a call finishes its pipeline while another call for the same
\* wallet has already finished its own over the same listing, each has
\* issued its own listing and its own detail requests, the second returns
\* the same total as the first, and it overwrites the entry: the cache then
\* holds that total with the second call's `now`.
C16_NoSingleFlightConvergence ==
    [][\A c, d \in Calls :
          (/\ c # d
           /\ Computed(c)
           /\ calls'[c] = calls[c]
           /\ calls[d].pc \in {"listing", "batch"}
           /\ calls'[d].pc = "done" /\ calls'[d].path = "computed"
           /\ calls[d].walletAddress = calls[c].walletAddress
           /\ calls'[d].signatures = calls[c].signatures)
              => /\ calls'[d].outcome = "return"
                 /\ calls'[d].value = calls[c].value
                 /\ calls[c].listings = 1 /\ calls'[d].listings = 1
                 /\ calls[c].details = Len(calls[c].signatures)
                 /\ calls'[d].details = Len(calls'[d].signatures)
                 /\ stakedAmountCache'[calls[d].walletAddress] =
                        [amount |-> calls[c].value, timestamp |-> calls[d].now]]_vars

\* C16 witness: two calls for U both missed the cache, started at different
\* times, both ran the pipeline over the same listing and returned 50; the
\* cache holds 50
C16_Witness ==
    \E c, d \in Calls :
        /\ c # d
        /\ Computed(c) /\ Computed(d)
        /\ calls[c].walletAddress = "U" /\ calls[d].walletAddress = "U"
        /\ calls[c].entryAtStart = None /\ calls[d].entryAtStart = None
        /\ calls[c].now # calls[d].now
        /\ calls[c].signatures = calls[d].signatures
        /\ calls[c].details = 1 /\ calls[d].details = 1
        /\ calls[c].value = 50 /\ calls[d].value = 50
        /\ stakedAmountCache["U"].amount = 50

\* C17: for a processed transaction of a participant, every custodial slot
\* in the tracked asset is compared with the pre-balance entry of the same
\* slot index; a missing entry or a null amount there counts as 0, so a slot
\* the transaction created with post amount p > 0 adds p, and a null post
\* amount counts as 0, so that slot adds nothing.
C17_MissingAmountsAreZero ==
    \A c \in Calls :
        \A k \in DOMAIN calls[c].steps :
            LET step == calls[c].steps[k]
                tx == Catalogue[step.signature]
                posts == PostSlots(tx)
                pres == PreSlots(tx)
                Matches(j) == {m \in DOMAIN pres :
                                 pres[m].accountIndex = posts[j].accountIndex}
                Created(j) ==
                    \/ Matches(j) = {}
                    \/ \E m \in Matches(j) :
                          /\ \A n \in Matches(j) : m <= n
                          /\ pres[m].uiAmount = <<>>
                qualifying == QualifyingSlots(tx)
                nullPost == {j \in qualifying : posts[j].uiAmount = <<>>}
                created == {j \in qualifying \ nullPost : Created(j)}
                others == qualifying \ (nullPost \cup created)
            IN  calls[c].walletAddress \in Participants(tx)
                   => step.after - step.before =
                          SumOver(created, [j \in created |-> posts[j].uiAmount[1]])
                          + SumOver(others, [j \in others |-> SlotDeposit(tx, j)])

\* C17 witness: a call processed transaction 7 (no pre-balance list, post
\* 50) and transaction 8 (null pre amount with post 50; pre 50 with null
\* post), each adding 50
C17_Witness ==
    \E c \in Calls :
        /\ Computed(c)
        /\ \E k \in DOMAIN calls[c].steps :
              /\ calls[c].steps[k].signature = 7
              /\ calls[c].steps[k].after - calls[c].steps[k].before = 50
        /\ \E k \in DOMAIN calls[c].steps :
              /\ calls[c].steps[k].signature = 8
              /\ calls[c].steps[k].after - calls[c].steps[k].before = 50

\* C18 (as claimed): an overwrite never replaces a wallet's entry by one
\* with an older timestamp.
C18_TimestampNeverDecreases ==
    [][\A w \in Wallets :
          (w \in DOMAIN stakedAmountCache /\ w \in DOMAIN stakedAmountCache')
              => stakedAmountCache'[w].timestamp >= stakedAmountCache[w].timestamp]_vars

\* C18 (amended): the timestamp written is the `now` the writing call read
\* when it was invoked, never later than the clock; an overwrite lowers the
\* entry's timestamp exactly when the writing call was invoked before the
\* call that wrote the entry it replaces.
C18_TimestampIsWritersStart ==
    [][\A w \in Wallets :
          (/\ w \in DOMAIN stakedAmountCache'
           /\ (w \notin DOMAIN stakedAmountCache
                  \/ stakedAmountCache'[w] # stakedAmountCache[w]))
              => \E c \in Calls :
                    /\ calls[c].pc \in {"listing", "batch"}
                    /\ calls'[c].pc = "done"
                    /\ calls[c].walletAddress = w
                    /\ stakedAmountCache'[w].timestamp = calls[c].now
                    /\ calls[c].now <= clock
                    /\ w \in DOMAIN stakedAmountCache
                          => (stakedAmountCache'[w].timestamp
                                  < stakedAmountCache[w].timestamp
                              <=> calls[c].now < stakedAmountCache[w].timestamp)]_vars

\* C18 witness: the cache holds for U an entry older than the `now` of a
\* call for U that finished its pipeline: a call invoked earlier wrote last
C18_Witness ==
    \E c \in Calls :
        /\ Computed(c)
        /\ calls[c].walletAddress = "U"
        /\ "U" \in DOMAIN stakedAmountCache
        /\ stakedAmountCache["U"].timestamp < calls[c].now

\* call c started with an entry of its wallet aged exactly CACHE_DURATION
StartedAtTtl(c) ==
    /\ calls[c].pc # "idle"
    /\ calls[c].entryAtStart # None
    /\ calls[c].now - calls[c].entryAtStart[1].timestamp = CACHE_DURATION

\* C19 (as claimed): a call that started with an entry aged exactly
\* CACHE_DURATION was not served from it and ran the pipeline; if the
\* pipeline failed, it returned that entry's amount.
C19_AtTtlReturnsThatEntry ==
    \A c \in Calls :
        StartedAtTtl(c)
            => /\ calls[c].path # "hit"
               /\ calls[c].listings = 1
               /\ PipelineFailed(c)
                     => /\ calls[c].outcome = "return"
                        /\ calls[c].value = calls[c].entryAtStart[1].amount

\* C20: a call issues at most one listing; every batch of detail requests
\* it issues starts at the first record not yet requested, so no record is
\* requested twice and never more requests than records are issued; and,
\* every request settling eventually, a call that was invoked ends, with a
\* returned number or a thrown failure.
C20_Termination ==
    /\ [][\A c \in Calls :
             /\ calls'[c].listings <= 1
             /\ calls'[c].details <= Len(calls'[c].signatures)
             /\ calls'[c].details > calls[c].details
                   => /\ calls'[c].i = calls[c].details
                      /\ calls'[c].details - calls[c].details
                             = Len(Batch(calls'[c].signatures, calls'[c].i))]_vars
    /\ \A c \in Calls :
          (calls[c].pc # "idle")
              ~> (calls[c].pc = "done" /\ calls[c].outcome \in {"return", "throw"})

\* C20 witness: a call over three batches has ended, every record requested
C20_Witness ==
    \E c \in Calls :
        /\ calls[c].pc = "done"
        /\ calls[c].outcome = "return"
        /\ calls[c].batches = 3
        /\ calls[c].details = Len(calls[c].signatures)
        /\ calls[c].listings = 1

====
